---- MODULE Spec2Model ----
(***************************************************************************)
(* Model of streamentries (src/diaMcpServer.py), the bounded polling       *)
(* aggregator of the Dia server: it polls the entries endpoint, keeps the  *)
(* records whose `_id` it has not seen, and returns when the limit is      *)
(* reached, the deadline has passed or a request fails.                    *)
(*                                                                         *)
(* Python's None is the empty set and a present value x is {x}.  Seconds   *)
(* are integers (the float arguments are drawn from whole seconds).  The   *)
(* clock is read at the loop condition only; it advances by the duration   *)
(* of each request and by each sleep.  entries_url only names the          *)
(* endpoint and is left out; the elements of a decoded list are objects.   *)
(***************************************************************************)
EXTENDS Integers, Sequences, FiniteSets, TLC

\* ---- bounds of the model ------------------------------------------------
MaxCalls == 3
MaxCallDur == 1
MaxTimeout == 2
MaxPoll == 1
MaxLimit == 2
MaxBatch == 2
MaxRuns == 2

\* no run reads the clock beyond this: a run ends less than
\* MaxTimeout + MaxCallDur + MaxPoll + 1 after it began
ClockCap == MaxRuns * (MaxTimeout + MaxCallDur + MaxPoll + 1)

\* ---- constants of the program -------------------------------------------
DefaultPerRequest == 25
OverFetch == 2
ShortPause == 1

None == {}
Some(x) == {x}
The(o) == CHOOSE x \in o : TRUE

Max(x, y) == IF x >= y THEN x ELSE y
Min(x, y) == IF x <= y THEN x ELSE y

\* ---- the remote source: what one GET may answer -------------------------
Entry(i, s) == [_id |-> i, sgv |-> s]
\* the records of an arbitrary source: "a" comes with two contents, one record has no _id
Entries == {Entry(Some("a"), 100), Entry(Some("a"), 101), Entry(Some("b"), 100), Entry(None, 100)}

RECURSIVE SeqsUpTo(_, _)
SeqsUpTo(S, n) ==
  IF n = 0 THEN {<<>>}
  ELSE LET shorter == SeqsUpTo(S, n - 1)
       IN shorter \cup {Append(q, e) : q \in {r \in shorter : Len(r) = n - 1}, e \in S}

Ok(batch) == [kind |-> "ok", data |-> batch]
Failure(k) == [kind |-> k, data |-> <<>>]
FailureKinds == {"transport", "http_status", "not_json", "not_a_list"}
Responses == {Ok(b) : b \in SeqsUpTo(Entries, MaxBatch)} \cup {Failure(k) : k \in FailureKinds}

\* ---- the pure steps of streamentries ------------------------------------
\* (a variant that takes max_events = 0 for a limit of zero)
LimitZeroIsZero(me) == IF me >= 0 THEN Some(me) ELSE None

\* limit = max_events if max_events > 0 else None
Limit(me) == IF me > 0 THEN Some(me) ELSE None

\* (a variant that asks for limit records, not twice as many)
PerRequestNoOverFetch(lim, pr) ==
  IF pr = None \/ pr = Some(0)
  THEN IF lim = None THEN DefaultPerRequest ELSE Max(The(lim), 1)
  ELSE The(pr)

\* per_request = per_request or 25 / per_request or max(limit * 2, 1)
PerRequest(lim, pr) ==
  IF pr = None \/ pr = Some(0)
  THEN IF lim = None THEN DefaultPerRequest ELSE Max(The(lim) * OverFetch, 1)
  ELSE The(pr)

\* (a variant that takes min for max)
DeadlineMinForMax(now, to) == now + Min(to, 0)

\* deadline = time.monotonic() + max(timeout, 0)
Deadline(now, to) == now + Max(to, 0)

\* len(events) < limit, for a limit that is not None
BelowLimit(lim, n) == \A l \in lim : n < l

\* (a variant that does not look at the clock)
LoopCondCountOnly(now, dl, lim, n) == lim = None \/ \A l \in lim : n < l

\* (a variant that lets the loop run at the deadline itself)
LoopCondInclusive(now, dl, lim, n) == now <= dl /\ (lim = None \/ \A l \in lim : n < l)

\* time.monotonic() < deadline and (limit is None or len(events) < limit)
LoopCond(now, dl, lim, n) == now < dl /\ (lim = None \/ BelowLimit(lim, n))

\* (variants that drop one of the two tests)
SkipAbsentOnly(entry_id, seen) == entry_id = None
SkipSeenOnly(entry_id, seen) == entry_id \in seen

\* (a variant in which the seen set outlives the call)
KeptSeen(old) == old

\* events: list[dict] = [] and seen_ids: set[str] = set(), whatever was there before
NewEvents(old) == <<>>
NewSeen(old) == {}

\* entry_id is None or entry_id in seen_ids
Skip(entry_id, seen) == entry_id = None \/ entry_id \in seen

\* (a variant that forgets to mark the _id)
AddNothing(seen, entry_id) == seen

\* seen_ids.add(entry_id)
AddSeen(seen, entry_id) == seen \cup {entry_id}

\* {"sgv": entry.get("sgv"), "dateString": ..., "raw": entry}
Reading(entry) == [sgv |-> entry.sgv, raw |-> entry]

\* (a variant that inserts at the front)
PrependEvent(evs, r) == <<r>> \o evs

\* events.append(...)
AppendEvent(evs, r) == Append(evs, r)

\* (variants that are off by one, either way)
LimitExceeded(lim, n) == lim # None /\ n > The(lim)
LimitReachedEarly(lim, n) == lim # None /\ n + 1 >= The(lim)

\* limit is not None and len(events) >= limit
LimitReached(lim, n) == lim # None /\ n >= The(lim)

\* (a variant that scans every batch to its end)
NeverBreakScan(lim, n) == FALSE

\* line 107, the break inside the for loop
BreakScan(lim, n) == LimitReached(lim, n)

\* (variants: without the floor at zero, without the short pause)
SleepArgUnclamped(found, pi) == IF ~found THEN pi ELSE Min(pi, ShortPause)
SleepArgAlwaysFull(found, pi) == Max(pi, 0)

\* the argument of time.sleep at the end of an iteration
SleepArg(found, pi) == IF ~found THEN Max(pi, 0) ELSE Max(Min(pi, ShortPause), 0)

\* (a variant that returns the newest Reading only)
DumpsNewest(evs) ==
  [kind |-> "json", events |-> IF evs = <<>> THEN <<>> ELSE <<evs[Len(evs)]>>]

\* return json.dumps(events)
Dumps(evs) == [kind |-> "json", events |-> evs]

\* the two error returns
ErrorReturn(k) ==
  IF k = "not_a_list"
  THEN [kind |-> "error", events |-> <<>>, text |-> "Unexpected response payload"]
  ELSE [kind |-> "error", events |-> <<>>, text |-> "Error streaming entries via REST polling"]

\* (a variant without the isinstance test)
FailedUnlessDecoded(resp) == resp.kind \notin {"ok", "not_a_list"}

\* response.raise_for_status(); response.json(); isinstance(data, list)
Failed(resp) == resp.kind # "ok"

\* ---- history of what the source has sent --------------------------------
IdsOf(q) == {q[i]._id : i \in {j \in 1..Len(q) : q[j]._id # None}}

RECURSIVE Observe(_, _)
Observe(sofar, batch) ==
  IF batch = <<>> THEN sofar
  ELSE LET e == Head(batch)
       IN IF e._id = None \/ e._id \in IdsOf(sofar)
          THEN Observe(sofar, Tail(batch))
          ELSE Observe(Append(sofar, e), Tail(batch))

AbsentIn(batch) == Cardinality({i \in 1..Len(batch) : batch[i]._id = None})

\* ---- state ---------------------------------------------------------------
VARIABLES
  pc,             \* where the run stands: idle, while, get, for, after, done
  max_events, timeout, poll_interval,   \* the arguments, as passed
  per_request_arg,                      \* the argument per_request, as passed
  limit, per_request, deadline,         \* resolved before the loop
  entered,        \* the reading of time.monotonic() that the deadline was computed from
  events, seen_ids,                     \* the accumulation
  data, pos, new_found,                 \* the batch being scanned
  clock,          \* time.monotonic()
  result,         \* the returned value, None until the run returns
  exit,           \* how the loop was left
  source,         \* what the remote source answers
  calls,          \* the requests.get calls made: the count= sent, the kind of answer
  first_seen,     \* records in order of the first appearance of their _id
  absent_returned, \* records without _id returned so far
  slept,          \* the argument of the time.sleep since the last request, None if none
  runs            \* the number of this run

params == <<max_events, timeout, poll_interval, per_request_arg>>
resolved == <<limit, per_request, deadline, entered>>
accum == <<events, seen_ids>>
scan == <<data, pos, new_found>>
history == <<calls, first_seen, absent_returned>>
vars == <<pc, params, resolved, accum, scan, clock, result, exit, source, history, slept, runs>>

NCalls == Len(calls)

AnySource == [scripted |-> FALSE, script |-> <<>>]
Scripted(q) == [scripted |-> TRUE, script |-> q]

\* the answers the source may give to the k-th call; a script's last answer repeats
Answers(k) ==
  IF source.scripted
  THEN {source.script[Min(k, Len(source.script))]}
  ELSE Responses

InitRun ==
  /\ pc = "idle"
  /\ max_events = 0 /\ timeout = 0 /\ poll_interval = 0 /\ per_request_arg = None
  /\ limit = None /\ per_request = 0 /\ deadline = 0 /\ entered = 0
  /\ events = <<>> /\ seen_ids = {}
  /\ data = <<>> /\ pos = 0 /\ new_found = FALSE
  /\ clock = 0
  /\ result = None
  /\ exit = "none"
  /\ calls = <<>> /\ first_seen = <<>> /\ absent_returned = 0
  /\ slept = None
  /\ runs = 1

Init == InitRun /\ source = AnySource

MaxEventsArgs == -1..MaxLimit
TimeoutArgs == 0..MaxTimeout
PollArgs == 0..MaxPoll
PerRequestArgs == {None}

\* lines 71-81: the call, up to the loop
Enter(me, to, pi, pr) ==
  /\ pc = "idle"
  /\ max_events' = me /\ timeout' = to /\ poll_interval' = pi /\ per_request_arg' = pr
  /\ limit' = Limit(me)
  /\ per_request' = PerRequest(Limit(me), pr)
  /\ events' = NewEvents(events) /\ seen_ids' = NewSeen(seen_ids)
  /\ entered' = clock
  /\ deadline' = Deadline(clock, to)
  /\ pc' = "while"
  /\ UNCHANGED <<scan, clock, result, exit, source, history, slept, runs>>

\* line 84: the loop condition; when it fails, line 121 returns
LoopCheck ==
  /\ pc = "while"
  /\ IF LoopCond(clock, deadline, limit, Len(events))
     THEN /\ pc' = "get"
          /\ UNCHANGED <<result, exit>>
     ELSE /\ pc' = "done"
          /\ result' = Some(Dumps(events))
          /\ exit' = IF clock < deadline THEN "limit" ELSE "deadline"
  /\ UNCHANGED <<params, resolved, accum, scan, clock, source, history, slept, runs>>

\* lines 85-95: one GET, its status and payload checks; lines 118-119 on failure
\* the history keeps the first MaxCalls calls (recorded); later ones leave it as it is
Request(recorded) ==
  /\ pc = "get"
  /\ \E resp \in Answers(NCalls + 1), dur \in 0..MaxCallDur :
       /\ clock + dur <= ClockCap
       /\ clock' = clock + dur
       /\ calls' = IF recorded
                   THEN Append(calls, [count |-> per_request, kind |-> resp.kind])
                   ELSE calls
       /\ IF Failed(resp)
          THEN /\ pc' = "done"
               /\ result' = Some(ErrorReturn(resp.kind))
               /\ exit' = "error"
               /\ UNCHANGED <<scan, first_seen, absent_returned>>
          ELSE /\ data' = resp.data
               /\ pos' = 1
               /\ new_found' = FALSE
               /\ pc' = IF resp.data = <<>> THEN "after" ELSE "for"
               /\ first_seen' = IF recorded THEN Observe(first_seen, resp.data) ELSE first_seen
               /\ absent_returned' =
                    IF recorded THEN absent_returned + AbsentIn(resp.data) ELSE absent_returned
               /\ UNCHANGED <<result, exit>>
  /\ slept' = None
  /\ UNCHANGED <<params, resolved, accum, source, runs>>

Get == NCalls < MaxCalls /\ Request(TRUE)

\* lines 96-108: one pass of the for loop
ForEntry ==
  /\ pc = "for"
  /\ LET entry == data[pos]
         entry_id == entry._id
         more == IF pos < Len(data) THEN "for" ELSE "after"
     IN IF Skip(entry_id, seen_ids)
        THEN /\ pos' = pos + 1
             /\ pc' = more
             /\ UNCHANGED <<accum, new_found>>
        ELSE /\ seen_ids' = AddSeen(seen_ids, entry_id)
             /\ events' = AppendEvent(events, Reading(entry))
             /\ new_found' = TRUE
             /\ IF BreakScan(limit, Len(events'))
                THEN pc' = "after" /\ pos' = pos
                ELSE pc' = more /\ pos' = pos + 1
  /\ UNCHANGED <<params, resolved, data, clock, result, exit, source, history, slept, runs>>

\* lines 110-111, then line 121
BreakOnLimit ==
  /\ pc = "after"
  /\ LimitReached(limit, Len(events))
  /\ pc' = "done"
  /\ result' = Some(Dumps(events))
  /\ exit' = "limit"
  /\ UNCHANGED <<params, resolved, accum, scan, clock, source, history, slept, runs>>

\* lines 113-117; data and pos are dead until line 91 assigns data again, and are
\* cleared here
Sleep ==
  /\ pc = "after"
  /\ ~LimitReached(limit, Len(events))
  /\ clock + SleepArg(new_found, poll_interval) <= ClockCap
  /\ clock' = clock + SleepArg(new_found, poll_interval)
  /\ slept' = Some(SleepArg(new_found, poll_interval))
  /\ pc' = "while"
  /\ data' = <<>> /\ pos' = 0
  /\ UNCHANGED <<params, resolved, accum, new_found, result, exit, source, history, runs>>

\* any answers of the source, against the timings that let the loop run
Next ==
  \/ \E me \in MaxEventsArgs, to \in TimeoutArgs, pi \in PollArgs, pr \in PerRequestArgs :
       Enter(me, to, pi, pr)
  \/ LoopCheck
  \/ Get
  \/ ForEntry
  \/ BreakOnLimit
  \/ Sleep

Spec == Init /\ [][Next]_vars

\* ---- scripted sources, against every kind of argument --------------------
Ea == Entry(Some("a"), 100)
Eb == Entry(Some("b"), 100)
Ec == Entry(Some("c"), 100)
Enone == Entry(None, 100)

ScriptAB == <<Ok(<<Ea, Eb>>), Ok(<<Ea, Eb, Ec>>)>>
ScriptABC == <<Ok(<<Ea, Eb, Ec>>)>>
ScriptThenFail == <<Ok(<<Ea>>), Failure("http_status")>>
ScriptFail == <<Failure("http_status")>>
ScriptAbsent == <<Ok(<<Enone, Ea>>), Ok(<<Enone, Eb>>)>>
ScriptEmpty == <<Ok(<<>>)>>
ScriptMixed == <<Ok(<<Eb, Enone, Ea, Eb>>)>>
Scripts ==
  {ScriptAB, ScriptABC, ScriptThenFail, ScriptFail, ScriptAbsent, ScriptEmpty, ScriptMixed}

InitScripted == InitRun /\ source \in {Scripted(q) : q \in Scripts}

ScriptedMaxEventsArgs == {-1, 0, 1, 3, 5}
ScriptedTimeoutArgs == -1..MaxTimeout
ScriptedPollArgs == -1..(MaxPoll + 1)
ScriptedPerRequestArgs == {None, Some(0), Some(-1), Some(7)}

NextScripted ==
  \/ \E me \in ScriptedMaxEventsArgs, to \in ScriptedTimeoutArgs,
        pi \in ScriptedPollArgs, pr \in ScriptedPerRequestArgs :
       Enter(me, to, pi, pr)
  \/ LoopCheck
  \/ Get
  \/ ForEntry
  \/ BreakOnLimit
  \/ Sleep

SpecScripted == InitScripted /\ [][NextScripted]_vars

\* ---- one call after another -------------------------------------------------
\* line 121 / 93 / 119 has returned and the caller calls again: the frame is gone and
\* the clock runs on.  events and seen_ids are left as they stood, so that it is
\* lines 78-79 of the next call that empty them.
Return ==
  /\ pc = "done"
  /\ runs < MaxRuns
  /\ pc' = "idle"
  /\ runs' = runs + 1
  /\ result' = None /\ exit' = "none"
  /\ data' = <<>> /\ pos' = 0 /\ new_found' = FALSE
  /\ calls' = <<>> /\ first_seen' = <<>> /\ absent_returned' = 0
  /\ slept' = None
  /\ max_events' = 0 /\ timeout' = 0 /\ poll_interval' = 0 /\ per_request_arg' = None
  /\ limit' = None /\ per_request' = 0 /\ deadline' = 0 /\ entered' = 0
  /\ UNCHANGED <<accum, clock, source>>

NextRuns ==
  \/ \E me \in ScriptedMaxEventsArgs, to \in TimeoutArgs, pi \in PollArgs, pr \in PerRequestArgs :
       Enter(me, to, pi, pr)
  \/ LoopCheck
  \/ Get
  \/ ForEntry
  \/ BreakOnLimit
  \/ Sleep
  \/ Return

SpecRuns == InitScripted /\ [][NextRuns]_vars

\* ---- runs of any length, under fairness -------------------------------------
\* a request beyond the first MaxCalls
GetOn == NCalls >= MaxCalls /\ Request(FALSE)

NextLive ==
  \/ \E me \in ScriptedMaxEventsArgs, to \in ScriptedTimeoutArgs,
        pi \in ScriptedPollArgs, pr \in ScriptedPerRequestArgs :
       Enter(me, to, pi, pr)
  \/ LoopCheck
  \/ Get
  \/ GetOn
  \/ ForEntry
  \/ BreakOnLimit
  \/ Sleep

\* a request that takes time
TimedRequest == (Get \/ GetOn) /\ clock' > clock

\* the interpreter goes on and every request returns (WF); the clock does not
\* stand still for ever: of the requests of an endless loop some take time (SF)
SpecLive ==
  /\ InitScripted
  /\ [][NextLive]_vars
  /\ WF_vars(NextLive)
  /\ SF_vars(TimedRequest)

\* ---- what the claims speak of --------------------------------------------
Returned == result # None
ReturnedJson == \E r \in result : r.kind = "json"
ReturnedError == \E r \in result : r.kind = "error"
ResultEvents == IF ReturnedJson THEN (The(result)).events ELSE <<>>

IdAt(evs, i) == evs[i].raw._id
NoTwoSameId(evs) ==
  \A i, j \in 1..Len(evs) : (i # j /\ IdAt(evs, i) # None) => IdAt(evs, i) # IdAt(evs, j)

\* the place of the record with this _id in the order of first appearance
PlaceOf(id) == CHOOSE k \in 1..Len(first_seen) : first_seen[k]._id = id
InFirstSeenOrder(evs) ==
  /\ \A i \in 1..Len(evs) : IdAt(evs, i) \in IdsOf(first_seen)
  /\ \A i, j \in 1..Len(evs) : i < j => PlaceOf(IdAt(evs, i)) < PlaceOf(IdAt(evs, j))

AbsentReadings(evs) == Cardinality({i \in 1..Len(evs) : IdAt(evs, i) = None})
NoCallFailed == \A k \in 1..Len(calls) : calls[k].kind = "ok"

\* C1: at every point of a run, and in the returned result, no two Readings of the
\* accumulated sequence carry the same non-absent _id.
C1_DedupInvariant == NoTwoSameId(events) /\ NoTwoSameId(ResultEvents)

\* the scan stands at a record whose _id is already in the result, with other content
C1_Witness ==
  /\ pc = "for"
  /\ \E i \in 1..Len(events) : IdAt(events, i) = data[pos]._id /\ events[i].raw # data[pos]

\* C2: when max_events is positive the accumulated result is never longer than
\* max_events, whatever the batches hold.
C2_LengthBound ==
  max_events > 0 => (Len(events) <= max_events /\ Len(ResultEvents) <= max_events)

\* the limit was reached with a new record still waiting in the batch
C2_Witness ==
  /\ pc = "after" /\ max_events > 0 /\ Len(events) = max_events
  /\ \E j \in (pos + 1)..Len(data) : ~Skip(data[j]._id, seen_ids)

\* C3, as stated: with timeout <= 0 a run makes exactly one Client call.
C3_OneCallOnZeroTimeout == (pc = "done" /\ timeout <= 0) => NCalls = 1

\* C3, amended: with timeout <= 0 a run makes no Client call and returns the empty
\* sequence; the first check of the deadline already fails.
C3_NoCallOnZeroTimeout ==
  (pc # "idle" /\ timeout <= 0) =>
    /\ NCalls = 0
    /\ pc \in {"while", "done"}
    /\ pc = "done" => (result = Some(Dumps(<<>>)) /\ exit = "deadline")

C3_Witness == pc = "done" /\ timeout = 0 /\ poll_interval > 0 /\ max_events > 0

\* C4: a failed Client call ends the run at that call: no call follows it, and the
\* run returns an error that carries none of the Readings accumulated before.
C4_FailFast ==
  /\ \A k \in 1..Len(calls) : calls[k].kind # "ok" => k = Len(calls)
  /\ ~NoCallFailed =>
       /\ pc = "done"
       /\ ReturnedError /\ ~ReturnedJson
       /\ (The(result)).events = <<>>

\* the second call failed after the first had brought Readings
C4_Witness == pc = "done" /\ ~NoCallFailed /\ NCalls >= 2 /\ Len(events) > 0

\* C5: when the loop ends on the deadline, the run returns the Readings accumulated
\* so far as a success, be they fewer than max_events or none.
C5_DeadlineReturnsAccumulated ==
  exit = "deadline" =>
    /\ NoCallFailed
    /\ ReturnedJson /\ ~ReturnedError
    /\ ResultEvents = events
    /\ Len(ResultEvents) = Len(first_seen)

C5_Witness ==
  /\ exit = "deadline" /\ max_events > 0
  /\ Len(ResultEvents) > 0 /\ Len(ResultEvents) < max_events

\* C6: with max_events <= 0 there is no limit: the loop ends on the deadline or on
\* an error, never on the count.
C6_UnboundedNeverCountStops ==
  (pc # "idle" /\ max_events <= 0) =>
    /\ limit = None
    /\ exit \in {"none", "deadline", "error"}
    /\ pc = "done" => exit \in {"deadline", "error"}

C6_Witness == pc = "done" /\ max_events = 0 /\ exit = "deadline" /\ Len(ResultEvents) >= 2

\* C7: the result lists the Readings in the order in which their records first
\* appeared: by call, and within a call by position.
C7_FirstSeenOrder == InFirstSeenOrder(events) /\ InFirstSeenOrder(ResultEvents)

\* "b" came before "a", over more than one call, and stays before it
C7_Witness ==
  /\ pc = "done" /\ NCalls >= 2 /\ Len(ResultEvents) = 2
  /\ IdAt(ResultEvents, 1) = Some("b") /\ IdAt(ResultEvents, 2) = Some("a")

\* C8, as stated: every record without _id that the Client returned is appended to
\* the result (stated where every batch was scanned to its end).
C8_AbsentAlwaysAppended == exit = "deadline" => AbsentReadings(events) = absent_returned

\* C8, amended: a record without _id is skipped: it is never appended, never
\* enters the seen set and never counts toward the limit.
C8_AbsentNeverAppended ==
  /\ AbsentReadings(events) = 0 /\ AbsentReadings(ResultEvents) = 0
  /\ None \notin seen_ids

\* as many records without _id as the limit were scanned, and the limit was not reached
C8_Witness ==
  /\ exit = "deadline" /\ max_events > 0
  /\ absent_returned >= max_events /\ Len(ResultEvents) < max_events

\* C9, as stated: without failures the result is min(N, U) long, U the number of
\* distinct identifiers among the records returned, the absent one being one of them.
ReturnedIdentifiers == IdsOf(first_seen) \cup (IF absent_returned > 0 THEN {None} ELSE {})
C9_LengthIsMinOfAllRecords ==
  (ReturnedJson /\ max_events > 0) =>
    Len(ResultEvents) = Min(max_events, Cardinality(ReturnedIdentifiers))

\* C9, amended: U counts the distinct identifiers that are present.
C9_LengthIsMinOfIdentified ==
  (ReturnedJson /\ max_events > 0) =>
    Len(ResultEvents) = Min(max_events, Cardinality(IdsOf(first_seen)))

C9_Witness ==
  /\ ReturnedJson /\ max_events > 0 /\ absent_returned > 0
  /\ Len(ResultEvents) > 0 /\ Len(ResultEvents) < max_events

\* C10: against a source that answers a, b and then a, b, c, with max_events = 3, the
\* run does not stop on the count after the first call, makes no third call, and
\* after the second call returns a, b, c in that order.
C10_TwoCalls ==
  (source = Scripted(ScriptAB) /\ max_events = 3) =>
    /\ NCalls <= 2
    /\ (pc = "done" /\ NCalls < 2) => exit = "deadline"
    /\ (pc = "done" /\ NCalls = 2) =>
         result = Some(Dumps(<<Reading(Ea), Reading(Eb), Reading(Ec)>>))

C10_Witness ==
  /\ source = Scripted(ScriptAB) /\ max_events = 3
  /\ pc = "done" /\ NCalls = 2 /\ Len(ResultEvents) = 3

\* C11: against a source that answers a, b, c to every call, with max_events = 5 and
\* a positive timeout, the run polls until the deadline, ends on the deadline and
\* never on the count, and returns exactly a, b, c in that order.
C11_StaticSourceEndsOnDeadline ==
  (source = Scripted(ScriptABC) /\ max_events = 5 /\ timeout > 0) =>
    /\ exit \in {"none", "deadline"}
    /\ pc = "done" =>
         /\ exit = "deadline"
         /\ NCalls >= 1 /\ clock >= deadline
         /\ result = Some(Dumps(<<Reading(Ea), Reading(Eb), Reading(Ec)>>))

\* the run polled more than once before the deadline ended it
C11_Witness ==
  /\ source = Scripted(ScriptABC) /\ max_events = 5 /\ timeout > 0
  /\ pc = "done" /\ NCalls >= 2 /\ Len(ResultEvents) = 3

\* C12: a run starts with an empty result and an empty seen set, and against a
\* static source its result depends on the arguments and the source alone: the
\* first-seen records of the one answer, cut at max_events, whatever ran before.
IsStatic == Len(source.script) = 1 /\ source.script[1].kind = "ok"
StaticResult ==
  LET fs == Observe(<<>>, source.script[1].data)
      n == IF max_events > 0 THEN Min(max_events, Len(fs)) ELSE Len(fs)
  IN [i \in 1..n |-> Reading(fs[i])]
C13_OverrunBound ==
  /\ pc = "get" => clock < deadline
  /\ pc # "idle" =>
       clock - entered <= Max(timeout, 0) + MaxCallDur + Max(poll_interval, 0)

\* the run returned after a request and a sleep that both ended past the deadline
C13_Witness ==
  /\ pc = "done" /\ exit = "deadline" /\ timeout > 0
  /\ clock - deadline > MaxCallDur

\* C14: a timeout below zero gives the deadline that timeout 0 gives, a poll interval
\* below zero gives sleeps of 0, and an error is returned only when a request failed,
\* never for the arguments alone.
C14_ClampOnly ==
  pc # "idle" =>
    /\ timeout <= 0 => deadline = entered
    /\ (poll_interval < 0 /\ slept # None) => slept = Some(0)
    /\ ReturnedError => ~NoCallFailed

\* a run with a negative poll interval has slept
C14_Witness ==
  /\ pc = "while" /\ poll_interval < 0 /\ slept = Some(0) /\ NCalls >= 1
  /\ per_request_arg = Some(-1) /\ max_events <= 0

\* C15: the pause after a successful request is set by that iteration alone: none when
\* the limit is reached (the run returns at once), the poll interval when the
\* iteration added no Reading, the smaller of the poll interval and one second when
\* it added one (a poll interval below zero counting as zero).
C15_PauseRule ==
  /\ exit = "limit" => slept = None
  /\ pc \in {"for", "after"} => slept = None
  /\ slept # None =>
       /\ NCalls >= 1
       /\ ~new_found => slept = Some(Max(poll_interval, 0))
       /\ new_found => slept = Some(Min(Max(poll_interval, 0), 1))

\* new Readings were found under a poll interval of more than a second: a short pause
C15_Witness ==
  /\ pc = "while" /\ new_found /\ poll_interval > ShortPause /\ slept = Some(ShortPause)

\* C16, as stated: every request of a run carries the caller's per_request whenever
\* one was passed, else 25 without a limit and max(2 * max_events, 1) with one, and
\* the count sent is always positive.
DerivedPageSize == IF max_events <= 0 THEN 25 ELSE Max(max_events * 2, 1)
C16_OverrideAlwaysUsedAndPositive ==
  \A k \in 1..Len(calls) :
    /\ calls[k].count =
         (IF per_request_arg # None THEN The(per_request_arg) ELSE DerivedPageSize)
    /\ calls[k].count > 0

\* C16, amended: every request of a run carries the same count, fixed before the first:
\* the caller's per_request when one was passed and is not 0, else 25 without a limit
\* and max(2 * max_events, 1) with one; the count is positive unless the caller
\* passed a negative per_request, which is sent as it is.
C16_PageSize ==
  \A k \in 1..Len(calls) :
    /\ calls[k].count = per_request
    /\ calls[k].count =
         (IF per_request_arg \in {None, Some(0)} THEN DerivedPageSize
          ELSE The(per_request_arg))
    /\ (per_request_arg = None \/ The(per_request_arg) >= 0) => calls[k].count > 0

\* two requests of a run with a limit whose caller passed per_request = 0
C16_Witness ==
  /\ NCalls >= 2 /\ per_request_arg = Some(0) /\ max_events > 0
  /\ calls[2].count = 2 * max_events

\* C17: when the limit is reached inside a batch the scan stops at that record: the
\* result then holds exactly max_events Readings, the first new records in their
\* order, the last of them being the record the scan stands at, and no later record
\* of the batch is in the result or in the seen set.
EventIds(evs) == {IdAt(evs, i) : i \in 1..Len(evs)}
C17_ScanStopsAtLimit ==
  ((pc = "after" \/ exit = "limit") /\ max_events > 0 /\ Len(events) >= max_events) =>
    /\ Len(events) = max_events
    /\ pos \in 1..Len(data)
    /\ events[Len(events)].raw = data[pos]
    /\ \A i \in 1..Len(events) : events[i].raw = first_seen[i]
    /\ seen_ids = EventIds(events)
    /\ \A j \in (pos + 1)..Len(data) :
         data[j]._id \in seen_ids => \E i \in 1..pos : data[i]._id = data[j]._id
                                     \/ data[j]._id \in EventIds(SubSeq(events, 1, Len(events) - 1))

\* the run returned on the limit and left a new record of the batch unscanned
C17_Witness ==
  /\ exit = "limit" /\ NCalls >= 2 /\ pos < Len(data)
  /\ Len(first_seen) > Len(ResultEvents)

\* C18: the result is append-only: every step of a run leaves the Readings already in
\* the result in their places and the seen set no smaller, and a step that adds
\* nothing (the loop condition, a request, a record already seen, a sleep) leaves
\* the result and the seen set as they are.
IsPrefix(p, q) == Len(p) <= Len(q) /\ \A i \in 1..Len(p) : p[i] = q[i]
AddsNothing ==
  \/ pc \in {"while", "get", "after"}
  \/ pc = "for" /\ data[pos]._id \in EventIds(events)
C18_AppendOnly ==
  [][pc # "idle" =>
       /\ IsPrefix(events, events')
       /\ seen_ids \subseteq seen_ids'
       /\ AddsNothing => (events' = events /\ seen_ids' = seen_ids)]_vars

\* an iteration that met known records only has ended in a sleep
C18_Witness ==
  /\ pc = "while" /\ NCalls >= 2 /\ ~new_found /\ slept # None
  /\ Len(events) >= 1 /\ first_seen # <<>>

\* C20: at every point of a run the seen set is the set of the _id values of the
\* Readings in the result, and has as many elements as the result has Readings.
C20_SeenIsResultIds ==
  /\ seen_ids = EventIds(events)
  /\ Cardinality(seen_ids) = Len(events)

\* two ids are marked, after records without _id and more than one request
C20_Witness ==
  /\ pc = "after" /\ Cardinality(seen_ids) = 2 /\ absent_returned > 0 /\ NCalls >= 2
  /\ ~new_found

\* C19: every run terminates: once entered it reaches its return, with a result
\* sequence or an error, also without a limit and with a poll interval of zero.
C19_Terminates == (pc # "idle") ~> (pc = "done" /\ (ReturnedJson \/ ReturnedError))

\* a run without limit and without pause has made more requests than the history
\* keeps and has ended on the deadline
C19_Witness ==
  /\ pc = "done" /\ max_events <= 0 /\ poll_interval <= 0 /\ timeout > 0
  /\ exit = "deadline" /\ NCalls = MaxCalls /\ slept = Some(0)

\* the cap on the clock is never met
ClockBelowCap == clock + MaxCallDur + MaxPoll + 1 <= ClockCap \/ pc \in {"idle", "done"}

====
